---- MODULE Spec2Model ----
(***************************************************************************)
(* Model of the pattern finder of musicxml-note-pattern (src/index.js,     *)
(* the snapshot at lines 471-812): getNote with its process-wide table     *)
(* staffVoicesNumbers, the comparison helpers, arrayIncludesCount and      *)
(* findPattern.                                                            *)
(*                                                                         *)
(* Encoding of the DOM.  A document is the sequence of its <part>          *)
(* elements.  A part is [staves, notes]: the collection of its <staves>    *)
(* elements and the sequence of its <note> elements in document order.     *)
(* A note element is                                                       *)
(*   [rest, pitch, staff, voice, measure]                                  *)
(* where rest tells whether it has a <rest> child, pitch/staff/voice are   *)
(* the collections getElementsByTagName returns (sequences; a staff or     *)
(* voice entry is the integer its text parses to) and measure is the       *)
(* number attribute of the enclosing <measure>.  A pitch element is        *)
(* [step, alter, octave], again collections.                               *)
(*                                                                         *)
(* A JavaScript value that may be undefined is a set with at most one      *)
(* element: {} is undefined, {v} is v.                                     *)
(***************************************************************************)
EXTENDS Integers, Sequences, FiniteSets, TLC

VARIABLES
  pc,                            \* "idle", "parts", "scan", "done", "threw"
  xml,                           \* the document findPattern was called with
  pattern,                       \* the pattern findPattern was called with
  staffVoicesNumbers,            \* the module-level table (line 494)
  exactPatternOccurrences,
  exactPatternOccurrenceCount,
  approximatePatternOccurrences,
  approximatePatternOccurrenceCount,
  staffCount,
  partIndex,                     \* number of parts whose forEach body has ended
  staveNotes,                    \* the lanes of the current part, by staff and voice
  laneIndex,                     \* 1-based position in forEachLane(staveNotes)
  noteIndex,                     \* 0-based start index of the next alignment
  result,                        \* {} or the result of the latest alignment
  returned,                      \* {} or the object findPattern returned
  earlier,                       \* the calls of findPattern before the current one
  probe,                         \* {} or the latest direct use of a helper
  osmd,                          \* the rendered score given to the colouring
  toColor,                       \* the calls of colorOsmdNote still to be made
  consoleErrors,                 \* number of errors logged with console.error
  colorPc                        \* "idle", "coloring", "done", "threw"

vars == <<pc, xml, pattern, staffVoicesNumbers, exactPatternOccurrences,
          exactPatternOccurrenceCount, approximatePatternOccurrences,
          approximatePatternOccurrenceCount, staffCount, partIndex, staveNotes,
          laneIndex, noteIndex, result, returned, earlier, probe, osmd, toColor,
          consoleErrors, colorPc>>

\* The state of colorOsmdPatternOccurrences (lines 793-812).
colorVars == <<osmd, toColor, consoleErrors, colorPc>>

----------------------------------------------------------------------------
(* Bounds of the input families.                                           *)

MaxNotes == 3
MaxPatLen == 3
MaxSmallNotes == 2

----------------------------------------------------------------------------
(* Generic helpers.                                                        *)

SeqsUpTo(S, n) == UNION {[1..m -> S] : m \in 0..n}

Range(s) == {s[i] : i \in 1..Len(s)}

\* Array.prototype.indexOf: the 0-based index of the first entry equal to v, or -1.
indexOf(s, v) ==
  IF \E i \in 1..Len(s) : s[i] = v
  THEN (CHOOSE i \in 1..Len(s) : s[i] = v /\ \A j \in 1..(i - 1) : s[j] # v) - 1
  ELSE -1

----------------------------------------------------------------------------
(* Element lookups (lines 471-491).                                        *)

getUniqueElement(html) == IF Len(html) = 1 THEN {html[1]} ELSE {}

\* innerHTML of the unique element; an empty text is not modelled.
getUniqueString(html) == getUniqueElement(html)

\* parseInt of the unique element's text; the text is carried parsed.
getUniqueInteger(html) == getUniqueElement(html)

\* JavaScript truthiness of a possibly undefined integer.
Truthy(v) == v # {} /\ v # {0}

\* `v ? v : d` for a possibly undefined integer v.
OrDefault(v, d) == IF Truthy(v) THEN CHOOSE x \in v : TRUE ELSE d

isNotRest(noteElement) == ~noteElement.rest

----------------------------------------------------------------------------
(* The voice table and getNote (lines 493-527).                            *)
(*                                                                         *)
(* staffVoicesNumbers is a JavaScript array used with the index staff - 1. *)
(* The model keys it by the possibly undefined staff itself: the key {s}   *)
(* is the index s - 1 and the key {} is the property "NaN" that an         *)
(* undefined staff produces.                                               *)

\* The keys that are array indices, the ones Array.prototype.forEach visits.
IsArrayIndex(key) == \E s \in key : s - 1 >= 0

\* Order of Array.prototype.sort with (a, b) => a - b: undefined entries last.
SortsBefore(a, b) == a # {} /\ (b = {} \/ \E x \in a, y \in b : x < y)

RECURSIVE SortedInsert(_, _)
SortedInsert(s, v) ==
  IF s = <<>> THEN <<v>>
  ELSE IF SortsBefore(v, Head(s)) THEN <<v>> \o s
  ELSE <<Head(s)>> \o SortedInsert(Tail(s), v)

RECURSIVE sortVoices(_)
sortVoices(voices) ==
  IF voices = <<>> THEN <<>>
  ELSE SortedInsert(sortVoices(SubSeq(voices, 1, Len(voices) - 1)),
                    voices[Len(voices)])

\* Lines 509-515: register the voice under its staff.
registerVoice(table, staff, voice) ==
  IF staff \in DOMAIN table
  THEN IF Len(table[staff]) > 0 /\ indexOf(table[staff], voice) = -1
       THEN [table EXCEPT ![staff] = Append(@, voice)]
       ELSE table
  ELSE [k \in DOMAIN table \cup {staff} |->
          IF k = staff THEN <<voice>> ELSE table[k]]

\* Line 517: every list stored at an array index is sorted.
sortAllVoices(table) ==
  [k \in DOMAIN table |-> IF IsArrayIndex(k) THEN sortVoices(table[k]) ELSE table[k]]

\* getNote: the table after the call, and the Note, or threw when the note
\* element has no unique <pitch> (pitch.getElementsByTagName on undefined).
getNote(noteElement, table) ==
  LET pitch == getUniqueElement(noteElement.pitch)
      staff == getUniqueInteger(noteElement.staff)
      voice == getUniqueInteger(noteElement.voice)
      newTable == sortAllVoices(registerVoice(table, staff, voice))
  IN IF pitch = {}
     THEN [threw |-> TRUE, table |-> newTable, note |-> {}]
     ELSE LET p == CHOOSE x \in pitch : TRUE
          IN [threw |-> FALSE,
              table |-> newTable,
              note  |-> {[step       |-> getUniqueString(p.step),
                          octave     |-> getUniqueInteger(p.octave),
                          alter      |-> getUniqueInteger(p.alter),
                          staff      |-> OrDefault(staff, 1),
                          voice      |-> OrDefault(voice, 1),
                          staffVoice |-> indexOf(newTable[staff], voice) + 1]}]

----------------------------------------------------------------------------
(* Comparisons (lines 535-588).  The arguments are possibly undefined      *)
(* notes; a pattern entry is a note with the fields step and alter.        *)

\* Variant of noteIsEqual that reads an absent alter as the alter 0.
noteIsEqualAlterZero(note1, note2) ==
  \E a \in note1, b \in note2 :
    a.step = b.step /\ OrDefault(a.alter, 0) = OrDefault(b.alter, 0)

noteIsEqual(note1, note2) ==
  \E a \in note1, b \in note2 : a.step = b.step /\ a.alter = b.alter

staffVoiceIsEqual(note1, note2) ==
  \E a \in note1, b \in note2 : a.staff = b.staff /\ a.voice = b.voice

\* Position of the element among the <note> descendants of its measure that
\* have a <voice> whose first entry reads as filterValue; -1 when the element
\* itself is filtered out.
getElementIndex(part, element, filterValue) ==
  LET Kept(j) == /\ part.notes[j].measure = part.notes[element].measure
                 /\ Len(part.notes[j].voice) > 0
                 /\ part.notes[j].voice[1] = filterValue
  IN IF Kept(element)
     THEN Cardinality({j \in 1..(element - 1) : Kept(j)})
     ELSE -1

\* Variant of arrayIncludesCount that counts the entries of array that some
\* entry of target compares equal to.
arrayIncludesCountOfArray(array, target) ==
  Cardinality({i \in 1..Len(array) :
                 \E j \in 1..Len(target) : noteIsEqual({array[i]}, {target[j]})})

\* Number of leading entries of target that some entry of array compares
\* equal to: `every` stops at the first entry that none does.
RECURSIVE arrayIncludesCount(_, _)
arrayIncludesCount(array, target) ==
  IF target = <<>> THEN 0
  ELSE IF \E i \in 1..Len(array) : noteIsEqual({target[1]}, {array[i]})
       THEN 1 + arrayIncludesCount(array, Tail(target))
       ELSE 0

----------------------------------------------------------------------------
(* The lanes of a part (lines 615-649).                                    *)
(*                                                                         *)
(* staveNotes is an array of arrays of arrays of note elements, indexed by *)
(* staff - 1 and voice - 1.  The model keys both levels by the possibly    *)
(* undefined staff and voice, as it does for the voice table, and a note   *)
(* element is the index of the element in part.notes.                      *)

partStaffCountOf(part) == OrDefault(getUniqueInteger(part.staves), 1)

\* Lines 627-645, one note element: pushed to the lane of its voice when the
\* staff already has that lane, dropped when the staff exists without it, and
\* the first lane of a staff not seen before.
addToStaveNotes(sn, part, element) ==
  LET staff == getUniqueInteger(part.notes[element].staff)
      voice == getUniqueInteger(part.notes[element].voice)
  IN IF staff \in DOMAIN sn
     THEN IF voice \in DOMAIN sn[staff]
          THEN [sn EXCEPT ![staff][voice] = Append(@, element)]
          ELSE sn
     ELSE [k \in DOMAIN sn \cup {staff} |->
             IF k = staff THEN [v \in {voice} |-> <<element>>] ELSE sn[k]]

RECURSIVE groupNotes(_, _, _)
groupNotes(sn, part, element) ==
  IF element > Len(part.notes) THEN sn
  ELSE IF isNotRest(part.notes[element])
       THEN groupNotes(addToStaveNotes(sn, part, element), part, element + 1)
       ELSE groupNotes(sn, part, element + 1)

\* Variant of buildStaveNotes that treats every part as a part of one staff.
buildStaveNotesOneLane(part) ==
  [k \in {{1}} |-> [v \in {{1}} |-> [i \in 1..Len(part.notes) |-> i]]]

buildStaveNotes(part) ==
  IF partStaffCountOf(part) > 1
  THEN groupNotes(<<>>, part, 1)
  ELSE [k \in {{1}} |-> [v \in {{1}} |-> [i \in 1..Len(part.notes) |-> i]]]

\* The array indices of a keyed array in ascending order.
RECURSIVE indicesInOrder(_)
indicesInOrder(keys) ==
  LET idx == {k \in keys : IsArrayIndex(k)}
  IN IF idx = {} THEN <<>>
     ELSE LET least == CHOOSE k \in idx : \A o \in idx : o = k \/ SortsBefore(k, o)
          IN <<least>> \o indicesInOrder(idx \ {least})

RECURSIVE voicesInOrder(_, _)
voicesInOrder(staffVoices, order) ==
  IF order = <<>> THEN <<>>
  ELSE <<staffVoices[Head(order)]>> \o voicesInOrder(staffVoices, Tail(order))

RECURSIVE stavesInOrder(_, _)
stavesInOrder(sn, order) ==
  IF order = <<>> THEN <<>>
  ELSE voicesInOrder(sn[Head(order)], indicesInOrder(DOMAIN sn[Head(order)]))
       \o stavesInOrder(sn, Tail(order))

\* The lanes in the order the two nested forEach of lines 651-652 visit them:
\* entries stored under a key that is no array index are never visited.
forEachLane(sn) == stavesInOrder(sn, indicesInOrder(DOMAIN sn))

\* Line 653: the alignments of a lane are numbered by its non-rest elements.
alignmentCount(part, staffVoiceNotes) ==
  Cardinality({i \in 1..Len(staffVoiceNotes) : isNotRest(part.notes[staffVoiceNotes[i]])})

----------------------------------------------------------------------------
(* One alignment (lines 654-704).                                          *)

\* Variant of noteRefAt that reads one element too far.
noteRefAtNext(staffVoiceNotes, nIndex, patternIndex) ==
  IF nIndex + patternIndex + 2 \in 1..Len(staffVoiceNotes)
  THEN {staffVoiceNotes[nIndex + patternIndex + 2]}
  ELSE {}

\* Line 661: staffVoiceNotes[noteIndex + patternIndex], {} when out of range.
noteRefAt(staffVoiceNotes, nIndex, patternIndex) ==
  IF nIndex + patternIndex + 1 \in 1..Len(staffVoiceNotes)
  THEN {staffVoiceNotes[nIndex + patternIndex + 1]}
  ELSE {}

\* Variant of accepts that does not compare the staff and the voice.
acceptsInAnyVoice(note, patternNote, prevNote) ==
  \/ noteIsEqual(note, patternNote)
  \/ noteIsEqual(note, prevNote)

\* Lines 669-673.
accepts(note, patternNote, prevNote) ==
  \/ /\ noteIsEqual(note, patternNote)
     /\ staffVoiceIsEqual(note, IF prevNote # {} THEN prevNote ELSE note)
  \/ noteIsEqual(note, prevNote)

\* Lines 655-681: the loop over the pattern from patternIndex on, with the
\* occurrence accumulated so far and the voice table.
RECURSIVE accumulate(_, _, _, _, _, _, _, _)
accumulate(part, pat, count, staffVoiceNotes, nIndex, patternIndex, occ, table) ==
  IF patternIndex >= Len(pat)
  THEN [threw |-> FALSE, notes |-> occ, table |-> table]
  ELSE LET noteRef == noteRefAt(staffVoiceNotes, nIndex, patternIndex)
       IN IF noteRef = {} \/ \E e \in noteRef : ~isNotRest(part.notes[e])
          THEN accumulate(part, pat, count, staffVoiceNotes, nIndex,
                          patternIndex + 1, occ, table)
          ELSE LET e == CHOOSE x \in noteRef : TRUE
                   got == getNote(part.notes[e], table)
                   prevNote == IF occ = <<>> THEN {} ELSE {occ[Len(occ)].note}
               IN IF got.threw
                  THEN [threw |-> TRUE, notes |-> occ, table |-> got.table]
                  ELSE LET note == CHOOSE n \in got.note : TRUE
                           pushed ==
                             [staff   |-> count + note.staff - 1,
                              measure |-> part.notes[e].measure,
                              measureNoteNumber |->
                                getElementIndex(part, e, note.voice) + 1,
                              note    |-> note]
                       IN accumulate(part, pat, count, staffVoiceNotes, nIndex,
                                     patternIndex + 1,
                                     IF accepts({note}, {pat[patternIndex + 1]}, prevNote)
                                     THEN Append(occ, pushed) ELSE occ,
                                     got.table)

occurrenceNotes(occ) == [i \in 1..Len(occ) |-> occ[i].note]

\* Variant of isExact that tolerates one missing entry.
isExactOrOneShort(patternLength, matchingCount) == patternLength - matchingCount <= 1

\* Line 694.
isExact(patternLength, matchingCount) == patternLength - matchingCount = 0

\* Variant of isApproximate with the threshold matchingCount / pattern.length >= 0.5.
isApproximateFromHalf(patternLength, matchingCount) ==
  2 * matchingCount >= patternLength

\* Line 699, matchingCount / pattern.length > 0.6.  The quotient of two small
\* integers exceeds the double 0.6 exactly when 5 * matchingCount exceeds
\* 3 * pattern.length: 3/5 rounds to the double that 0.6 denotes.
isApproximate(patternLength, matchingCount) == 5 * matchingCount > 3 * patternLength

----------------------------------------------------------------------------
(* findPattern (lines 600-711), one step per alignment.                    *)

Init ==
  /\ pc = "idle"
  /\ xml = <<>>
  /\ pattern = <<>>
  /\ staffVoicesNumbers = <<>>
  /\ exactPatternOccurrences = <<>>
  /\ exactPatternOccurrenceCount = 0
  /\ approximatePatternOccurrences = <<>>
  /\ approximatePatternOccurrenceCount = 0
  /\ staffCount = 0
  /\ partIndex = 0
  /\ staveNotes = <<>>
  /\ laneIndex = 0
  /\ noteIndex = 0
  /\ result = {}
  /\ returned = {}
  /\ earlier = <<>>
  /\ probe = {}
  /\ osmd = <<>>
  /\ toColor = <<>>
  /\ consoleErrors = 0
  /\ colorPc = "idle"

\* The first lane at or after position from that has an alignment, 0 if none.
nextLane(part, lanes, from) ==
  LET busy == {l \in from..Len(lanes) : alignmentCount(part, lanes[l]) > 0}
  IN IF busy = {} THEN 0 ELSE CHOOSE l \in busy : \A o \in busy : l <= o

\* Lines 600-611: the call, up to the loop over the parts.  A call follows
\* the start of the process or the end of an earlier call; nothing in it
\* touches staffVoicesNumbers.
Call(document, pat) ==
  /\ pc \in {"idle", "done", "threw"}
  /\ pc' = "parts"
  /\ xml' = document
  /\ pattern' = pat
  /\ exactPatternOccurrences' = <<>>
  /\ exactPatternOccurrenceCount' = 0
  /\ approximatePatternOccurrences' = <<>>
  /\ approximatePatternOccurrenceCount' = 0
  /\ staffCount' = 0
  /\ partIndex' = 0
  /\ returned' = {}
  /\ earlier' = IF pc = "idle" THEN earlier
                ELSE Append(earlier, [xml |-> xml, pattern |-> pattern,
                                      returned |-> returned])
  /\ UNCHANGED <<staffVoicesNumbers, staveNotes, laneIndex, noteIndex, result, probe,
                 colorVars>>

\* Lines 613-649: the next part is entered and its lanes are built.  A part
\* without any alignment is left at once.  (A value that is used more than
\* once is bound by a quantifier over a singleton, which evaluates it once.)
BeginPart ==
  /\ pc = "parts"
  /\ partIndex < Len(xml)
  /\ \E sn \in {buildStaveNotes(xml[partIndex + 1])} :
       \E first \in {nextLane(xml[partIndex + 1], forEachLane(sn), 1)} :
         /\ staffCount' = staffCount + 1
         /\ staveNotes' = sn
         /\ laneIndex' = first
         /\ noteIndex' = 0
         /\ IF first = 0
            THEN pc' = "parts" /\ partIndex' = partIndex + 1
            ELSE pc' = "scan" /\ partIndex' = partIndex
  /\ UNCHANGED <<xml, pattern, staffVoicesNumbers, exactPatternOccurrences,
                 exactPatternOccurrenceCount, approximatePatternOccurrences,
                 approximatePatternOccurrenceCount, result, returned, earlier,
                 probe, colorVars>>

\* The number a counter gives with count++, the counter read before it is
\* raised.
occurenceNumberPostIncrement(count) == count

\* Lines 697 and 702: the number ++count gives to the occurrence pushed.
occurenceNumber(count) == count + 1

\* Lines 683-704: the accumulated occurrence is counted and classified, and
\* the scan moves on to the alignment that follows.
Classify(patternOccurrence, matchingCount, following) ==
  LET res == [notes |-> patternOccurrence, matchingCount |-> matchingCount]
      exact == isExact(Len(pattern), matchingCount)
      approximate == ~exact /\ isApproximate(Len(pattern), matchingCount)
  IN /\ result' = {res}
     /\ exactPatternOccurrenceCount' =
          IF exact THEN exactPatternOccurrenceCount + 1
          ELSE exactPatternOccurrenceCount
     /\ exactPatternOccurrences' =
          IF exact
          THEN Append(exactPatternOccurrences,
                      [notes |-> res.notes,
                       matchingCount |-> res.matchingCount,
                       occurenceNumber |->
                         occurenceNumber(exactPatternOccurrenceCount)])
          ELSE exactPatternOccurrences
     /\ approximatePatternOccurrenceCount' =
          IF approximate THEN approximatePatternOccurrenceCount + 1
          ELSE approximatePatternOccurrenceCount
     /\ approximatePatternOccurrences' =
          IF approximate
          THEN Append(approximatePatternOccurrences,
                      [notes |-> res.notes,
                       matchingCount |-> res.matchingCount,
                       occurenceNumber |->
                         occurenceNumber(approximatePatternOccurrenceCount)])
          ELSE approximatePatternOccurrences
     /\ laneIndex' = following
     /\ noteIndex' = IF following = laneIndex THEN noteIndex + 1 ELSE 0
     /\ IF following = 0
        THEN pc' = "parts" /\ partIndex' = partIndex + 1
        ELSE pc' = "scan" /\ partIndex' = partIndex

\* Lines 654-704: the alignment that starts at noteIndex in the current lane.
\* A TypeError of getNote leaves findPattern, and nothing is returned.
Attempt ==
  /\ pc = "scan"
  /\ \E part \in {xml[partIndex + 1]}, lanes \in {forEachLane(staveNotes)} :
       \E acc \in {accumulate(part, pattern, staffCount, lanes[laneIndex],
                              noteIndex, 0, <<>>, staffVoicesNumbers)} :
         /\ staffVoicesNumbers' = acc.table
         /\ IF acc.threw
            THEN /\ pc' = "threw"
                 /\ UNCHANGED <<exactPatternOccurrences, exactPatternOccurrenceCount,
                                approximatePatternOccurrences,
                                approximatePatternOccurrenceCount, partIndex,
                                laneIndex, noteIndex, result>>
            ELSE \E matchingCount \in
                      {arrayIncludesCount(occurrenceNotes(acc.notes), pattern)},
                    following \in
                      {IF noteIndex + 1 < alignmentCount(part, lanes[laneIndex])
                       THEN laneIndex
                       ELSE nextLane(part, lanes, laneIndex + 1)} :
                   Classify(acc.notes, matchingCount, following)
  /\ UNCHANGED <<xml, pattern, staffCount, staveNotes, returned, earlier, probe,
                 colorVars>>

\* Line 710.
Return ==
  /\ pc = "parts"
  /\ partIndex = Len(xml)
  /\ pc' = "done"
  /\ returned' = {[exactPatternOccurrences |-> exactPatternOccurrences,
                   approximatePatternOccurrences |-> approximatePatternOccurrences]}
  /\ UNCHANGED <<xml, pattern, staffVoicesNumbers, exactPatternOccurrences,
                 exactPatternOccurrenceCount, approximatePatternOccurrences,
                 approximatePatternOccurrenceCount, staffCount, partIndex,
                 staveNotes, laneIndex, noteIndex, result, earlier, probe,
                 colorVars>>

----------------------------------------------------------------------------
(* Input families.                                                         *)

Pitch(step, alter) == [step |-> step, alter |-> alter, octave |-> <<>>]

NoteElement(pitch, staff, voice, measure) ==
  [rest |-> FALSE, pitch |-> pitch, staff |-> staff, voice |-> voice,
   measure |-> measure]

RestElement(staff, voice, measure) ==
  [rest |-> TRUE, pitch |-> <<>>, staff |-> staff, voice |-> voice,
   measure |-> measure]

PatternNote(step, alter) == [step |-> step, alter |-> alter]

\* One part whose notes lie on staff 1 in voice 1 or 2, with rests, declared
\* with one staff or with two.
GeneralElements ==
  {NoteElement(<<p>>, <<1>>, <<v>>, 1) :
     p \in {Pitch(<<"A">>, <<>>), Pitch(<<"B">>, <<-1>>)}, v \in 1..2}
  \cup {RestElement(<<1>>, <<v>>, 1) : v \in 1..2}

GeneralDocs ==
  {<<[staves |-> st, notes |-> n]>> :
     st \in {<<>>, <<2>>}, n \in SeqsUpTo(GeneralElements, MaxNotes)}

\* Two parts of one voice that share up to MaxSmallNotes notes, with notes
\* whose <pitch> has no <step> or that have no <pitch>, and with parts that
\* have no note.
SmallElements ==
  {NoteElement(p, <<1>>, <<1>>, 1) :
     p \in {<<Pitch(<<"A">>, <<>>)>>, <<Pitch(<<"B">>, <<-1>>)>>,
            <<Pitch(<<>>, <<>>)>>, <<>>}}

TwoPartDocs ==
  {<<[staves |-> <<>>, notes |-> SubSeq(n, 1, cut)],
     [staves |-> <<>>, notes |-> SubSeq(n, cut + 1, Len(n))]>> :
     <<n, cut>> \in {<<n, cut>> \in SeqsUpTo(SmallElements, MaxSmallNotes)
                                    \X (0..MaxSmallNotes) : cut <= Len(n)}}

Docs == GeneralDocs \cup TwoPartDocs

Patterns ==
  SeqsUpTo({PatternNote({"A"}, {}), PatternNote({"B"}, {-1})}, MaxPatLen)

\* A first call of findPattern in the process, on a document and a pattern
\* of the families above.
CallGeneral ==
  /\ pc = "idle"
  /\ \E document \in Docs, pat \in Patterns : Call(document, pat)

Next ==
  \/ CallGeneral
  \/ BeginPart
  \/ Attempt
  \/ Return

Spec == Init /\ [][Next]_vars

----------------------------------------------------------------------------
(* The scenarios: one part, four notes of one voice, in one or two         *)
(* measures, with or without <staves>, <staff> and <voice> elements.       *)

Bflat == Pitch(<<"B">>, <<-1>>)
Anat == Pitch(<<"A">>, <<>>)
Cnat == Pitch(<<"C">>, <<>>)
Bnat == Pitch(<<"B">>, <<>>)
Dnat == Pitch(<<"D">>, <<>>)

ScenarioPattern ==
  <<PatternNote({"B"}, {-1}), PatternNote({"A"}, {}), PatternNote({"C"}, {}),
    PatternNote({"B"}, {-1})>>

\* The notes of one voice: the first `split` of them in measure 1, the others
\* in measure 2.
VoiceNotes(pitches, staff, voice, split) ==
  [i \in 1..Len(pitches) |->
     NoteElement(<<pitches[i]>>, staff, voice, IF i <= split THEN 1 ELSE 2)]

SingleVoiceDocs(pitches) ==
  {<<[staves |-> st, notes |-> VoiceNotes(pitches, staff, voice, split)]>> :
     st \in {<<>>, <<1>>}, staff \in {<<>>, <<1>>}, voice \in {<<>>, <<1>>},
     split \in 0..Len(pitches)}

ScenarioADocs == SingleVoiceDocs(<<Bflat, Anat, Cnat, Bflat>>)
ScenarioBDocs == SingleVoiceDocs(<<Bflat, Anat, Cnat, Bnat>>)
ScenarioCDocs == SingleVoiceDocs(<<Bflat, Dnat, Cnat, Bflat>>)

\* Scenario D: two staves declared, voice 1 on staff 1 with the pattern, and
\* one note of voice 2, on either staff, at any place among them.
InsertAt(s, i, e) == SubSeq(s, 1, i) \o <<e>> \o SubSeq(s, i + 1, Len(s))

ScenarioDDocs ==
  {<<[staves |-> <<2>>,
      notes |-> InsertAt(VoiceNotes(<<Bflat, Anat, Cnat, Bflat>>, <<1>>, <<1>>, 4),
                         i, NoteElement(<<Dnat>>, <<staff2>>, <<2>>, 1))]>> :
     staff2 \in 1..2, i \in 0..4}

ScenarioDocs == ScenarioADocs \cup ScenarioBDocs \cup ScenarioCDocs \cup ScenarioDDocs

CallScenario ==
  /\ pc = "idle"
  /\ \E document \in ScenarioDocs : Call(document, ScenarioPattern)

NextScenario ==
  \/ CallScenario
  \/ BeginPart
  \/ Attempt
  \/ Return

SpecScenario == Init /\ [][NextScenario]_vars

----------------------------------------------------------------------------
(* Properties.                                                             *)

PitchesOf(occurrence) ==
  [j \in 1..Len(occurrence.notes) |->
     <<occurrence.notes[j].note.step, occurrence.notes[j].note.alter>>]

PatternPitches == [j \in 1..Len(pattern) |-> <<pattern[j].step, pattern[j].alter>>]

\* C1: for a pattern of length k >= 1, every occurrence in
\* exactPatternOccurrences has exactly k notes and its j-th note has the step
\* and alter of pattern[j], for every j.
ExactOccurrenceIsThePattern ==
  Len(pattern) >= 1 =>
    \A i \in 1..Len(exactPatternOccurrences) :
      PitchesOf(exactPatternOccurrences[i]) = PatternPitches

\* C2: every occurrence in approximatePatternOccurrences has
\* 0 < matchingCount < k and matchingCount / k > 0.6, that is
\* 5 * matchingCount > 3 * k, for the pattern length k.
ApproximateWithinThreshold ==
  \A i \in 1..Len(approximatePatternOccurrences) :
    LET matchingCount == approximatePatternOccurrences[i].matchingCount
    IN /\ 0 < matchingCount
       /\ matchingCount < Len(pattern)
       /\ 5 * matchingCount > 3 * Len(pattern)

\* C2 witness: findPattern has returned an approximate occurrence.
ApproximateReturned ==
  /\ pc = "done"
  /\ \E r \in returned : Len(r.approximatePatternOccurrences) > 0

\* One list after an alignment: it has grown by the occurrence, or is as before.
GrewBy(before, after, occurrence) ==
  /\ Len(after) = Len(before) + 1
  /\ SubSeq(after, 1, Len(before)) = before
  /\ after[Len(after)].notes = occurrence.notes
  /\ after[Len(after)].matchingCount = occurrence.matchingCount

\* C3: every alignment is appended to the exact list if and only if
\* matchingCount = k, to the approximate list if and only if matchingCount < k
\* and 5 * matchingCount > 3 * k, to neither list otherwise, and never to both
\* lists or twice to one.
ClassifiedOnce ==
  [][(pc = "scan" /\ pc' # "threw") =>
       \E r \in result' :
         LET k == Len(pattern)
             toExact == r.matchingCount = k
             toApproximate == r.matchingCount < k /\ 5 * r.matchingCount > 3 * k
         IN /\ IF toExact
               THEN GrewBy(exactPatternOccurrences, exactPatternOccurrences', r)
               ELSE exactPatternOccurrences' = exactPatternOccurrences
            /\ IF toApproximate
               THEN GrewBy(approximatePatternOccurrences,
                           approximatePatternOccurrences', r)
               ELSE approximatePatternOccurrences' = approximatePatternOccurrences
            /\ ~(toExact /\ toApproximate)]_vars

\* C3 witness: a run with an exact alignment, an approximate alignment and a
\* last alignment that was discarded.
AllThreeClasses ==
  /\ pc = "done"
  /\ Len(exactPatternOccurrences) = 1
  /\ Len(approximatePatternOccurrences) = 1
  /\ \E r \in result : r.matchingCount = 0 /\ Len(pattern) > 0

\* C4: findPattern on a scenario A document (notes B-flat, A, C, B-flat, the
\* pattern B-flat, A, C, B-flat) returns one exact occurrence, with
\* matchingCount 4 and occurrence number 1, and no approximate occurrence.
ScenarioAOneExact ==
  (xml \in ScenarioADocs /\ pattern = ScenarioPattern) =>
    /\ pc # "threw"
    /\ pc = "done" =>
         \E r \in returned :
           /\ Len(r.exactPatternOccurrences) = 1
           /\ r.exactPatternOccurrences[1].matchingCount = 4
           /\ r.exactPatternOccurrences[1].occurenceNumber = 1
           /\ PitchesOf(r.exactPatternOccurrences[1]) = PatternPitches
           /\ Len(r.approximatePatternOccurrences) = 0

\* C4 witness: findPattern has returned on a scenario A document whose notes
\* span two measures and carry no <voice>.
ScenarioAReturned ==
  /\ pc = "done"
  /\ xml \in ScenarioADocs
  /\ xml[1].notes[1].measure # xml[1].notes[4].measure
  /\ xml[1].notes[1].voice = <<>>

\* C5: findPattern on a scenario B document (notes B-flat, A, C, B natural)
\* computes matchingCount 3 and returns one approximate occurrence and no exact
\* occurrence.
ScenarioBOneApproximate ==
  (pc = "done" /\ xml \in ScenarioBDocs /\ pattern = ScenarioPattern) =>
    \E r \in returned :
      /\ Len(r.exactPatternOccurrences) = 0
      /\ Len(r.approximatePatternOccurrences) = 1
      /\ r.approximatePatternOccurrences[1].matchingCount = 3

\* C6: findPattern on a scenario C document (notes B-flat, D, C, B-flat)
\* accumulates B-flat, C, B-flat from the first note, with matchingCount 3, and
\* returns it as an approximate occurrence.
ScenarioCApproximate ==
  (pc = "done" /\ xml \in ScenarioCDocs /\ pattern = ScenarioPattern) =>
    \E r \in returned :
      \E i \in 1..Len(r.approximatePatternOccurrences) :
        /\ r.approximatePatternOccurrences[i].matchingCount = 3
        /\ PitchesOf(r.approximatePatternOccurrences[i])
             = <<PatternPitches[1], PatternPitches[3], PatternPitches[4]>>

\* C7: findPattern on a scenario D document (two staves declared, voice 1
\* holding the pattern once, voice 2 holding a foreign pitch, on either staff
\* and at any place) returns exactly one exact occurrence, whose notes are all
\* of voice 1 with staffVoice 1.
ScenarioDOneExactInVoiceOne ==
  (pc = "done" /\ xml \in ScenarioDDocs /\ pattern = ScenarioPattern) =>
    \E r \in returned :
      /\ Len(r.exactPatternOccurrences) = 1
      /\ \A j \in 1..Len(r.exactPatternOccurrences[1].notes) :
           /\ r.exactPatternOccurrences[1].notes[j].note.voice = 1
           /\ r.exactPatternOccurrences[1].notes[j].note.staffVoice = 1

\* The non-rest elements of the current lane from the start index on.
RemainingNotes ==
  LET staffVoiceNotes == forEachLane(staveNotes)[laneIndex]
  IN Cardinality({i \in (noteIndex + 1)..Len(staffVoiceNotes) :
                    isNotRest(xml[partIndex + 1].notes[staffVoiceNotes[i]])})

\* C8: an alignment that starts where fewer than k notes remain in its lane
\* has matchingCount < k and is not appended to the exact list.
ShortAlignmentNeverExact ==
  [][(pc = "scan" /\ pc' # "threw" /\ Len(pattern) >= 1
        /\ RemainingNotes < Len(pattern)) =>
       /\ \A r \in result' : r.matchingCount < Len(pattern)
       /\ exactPatternOccurrences' = exactPatternOccurrences]_vars

\* C9: findPattern with a pattern of length 0 returns no exact and no
\* approximate occurrence.
EmptyPatternReturnsNothing ==
  (pc = "done" /\ Len(pattern) = 0) =>
    \A r \in returned :
      /\ r.exactPatternOccurrences = <<>>
      /\ r.approximatePatternOccurrences = <<>>

\* A document with a part without notes, or with a note whose <pitch> has no
\* <step>.
Malformed(document) ==
  \E p \in 1..Len(document) :
    \/ Len(document[p].notes) = 0
    \/ \E n \in 1..Len(document[p].notes) :
         \E e \in Range(document[p].notes[n].pitch) : e.step = <<>>

\* C10: findPattern never returns occurrences for a document with a part
\* without notes or with a <pitch> without <step>.
MalformedScoreReturnsNothing ==
  (pc = "done" /\ Malformed(xml) /\ Len(pattern) >= 1) =>
    \A r \in returned :
      /\ r.exactPatternOccurrences = <<>>
      /\ r.approximatePatternOccurrences = <<>>

----------------------------------------------------------------------------
(* Repeated calls in one process: processXML runs findPattern for every    *)
(* file that is dropped (lines 866-870, 877-894); staffVoicesNumbers stays.*)

MaxCalls == 2

\* One part without <staves>; one or two notes A on staff 1, in voice 1 or 2.
RepeatDocs ==
  {<<[staves |-> <<>>, notes |-> n]>> :
     n \in SeqsUpTo({NoteElement(<<Pitch(<<"A">>, <<>>)>>, <<1>>, <<v>>, 1) :
                       v \in 1..2}, 2) \ {<<>>}}

RepeatPatterns == {<<PatternNote({"A"}, {})>>}

\* A call of findPattern, the first one or a later one of the same process.
CallRepeated ==
  /\ pc \in {"idle", "done", "threw"}
  /\ pc = "idle" \/ Len(earlier) + 1 < MaxCalls
  /\ \E document \in RepeatDocs, pat \in RepeatPatterns : Call(document, pat)

NextRepeat ==
  \/ CallRepeated
  \/ BeginPart
  \/ Attempt
  \/ Return

SpecRepeat == Init /\ [][NextRepeat]_vars

\* C11: a call of findPattern returns, staffVoice of every note included,
\* what an earlier call of the process with the same document and the same
\* pattern returned: the voice table does not leak from call to call.
RepeatedCallReturnsTheSame ==
  pc = "done" =>
    \A i \in 1..Len(earlier) :
      (earlier[i].xml = xml /\ earlier[i].pattern = pattern
         /\ earlier[i].returned # {}) =>
        earlier[i].returned = returned

----------------------------------------------------------------------------
(* getNote on its own: registrations into the voice table from the empty   *)
(* table of a fresh process (lines 494, 502-527).                          *)

\* Notes A in voice 1, 2 or 3, on staff 1 or 2 or without a <staff> element.
RegisterElements ==
  {NoteElement(<<Pitch(<<"A">>, <<>>)>>, st, <<v>>, 1) :
     st \in {<<>>, <<1>>, <<2>>}, v \in 1..3}

\* One call of getNote.
Register ==
  /\ pc = "idle"
  /\ \E noteElement \in RegisterElements :
       \E got \in {getNote(noteElement, staffVoicesNumbers)} :
         /\ staffVoicesNumbers' = got.table
         /\ probe' = got.note
  /\ UNCHANGED <<pc, xml, pattern, exactPatternOccurrences,
                 exactPatternOccurrenceCount, approximatePatternOccurrences,
                 approximatePatternOccurrenceCount, staffCount, partIndex,
                 staveNotes, laneIndex, noteIndex, result, returned, earlier,
                 colorVars>>

NextRegister == Register

SpecRegister == Init /\ [][NextRegister]_vars

\* C12: after any sequence of registrations from the empty table, the
\* ordinals the table yields for the voices registered under one staff are
\* 1..n, each used once, and grow strictly with the voice number: every list
\* of the table is strictly increasing.
OrdinalsGrowWithVoice ==
  \A staff \in DOMAIN staffVoicesNumbers :
    \A i, j \in 1..Len(staffVoicesNumbers[staff]) :
      i < j => OrDefault(staffVoicesNumbers[staff][i], 1)
                 < OrDefault(staffVoicesNumbers[staff][j], 1)

----------------------------------------------------------------------------
(* Scores of two parts, with one or two staves and one or two voices.      *)

MaxPartNotes == 2

\* Notes A on staff 1 or 2, in voice 1 or 2.
PartElements ==
  {NoteElement(<<Pitch(<<"A">>, <<>>)>>, <<s>>, <<v>>, 1) : s \in 1..2, v \in 1..2}

PartsOfScore ==
  {[staves |-> st, notes |-> n] :
     st \in {<<>>, <<2>>}, n \in SeqsUpTo(PartElements, MaxPartNotes) \ {<<>>}}

TwoPartScores == {<<p, q>> : p \in PartsOfScore, q \in PartsOfScore}

\* A first call of findPattern, on a score of two parts and the pattern [A].
CallParts ==
  /\ pc = "idle"
  /\ \E document \in TwoPartScores : Call(document, <<PatternNote({"A"}, {})>>)

NextParts ==
  \/ CallParts
  \/ BeginPart
  \/ Attempt
  \/ Return

SpecParts == Init /\ [][NextParts]_vars

\* The notes of the occurrences of the returned lists.
ReturnedNotes ==
  UNION {{occ.notes[n] : n \in 1..Len(occ.notes)} :
           occ \in UNION {Range(r.exactPatternOccurrences)
                            \cup Range(r.approximatePatternOccurrences) :
                          r \in returned}}

\* The 1-based number of the part an emitted note was found in: line 675
\* writes staff as staffCount + note.staff - 1, and staffCount is the number
\* of the part (line 614).
PartOf(o) == o.staff - o.note.staff + 1

\* The voice numbers of the notes of a part on a staff, absent ones taken as 1.
VoicesOn(part, staff) ==
  {OrDefault(getUniqueInteger(part.notes[n].voice), 1) :
     n \in {n \in 1..Len(part.notes) :
              OrDefault(getUniqueInteger(part.notes[n].staff), 1) = staff}}

\* C13: within one run the staffVoice of an emitted note counts only the
\* voices of its own part and staff: it lies in 1..m for the m voices of
\* that part on that staff, whatever voices another part has on a staff of
\* the same number.
OrdinalCountsOwnPartOnly ==
  pc = "done" =>
    \A o \in ReturnedNotes :
      /\ o.note.staffVoice >= 1
      /\ o.note.staffVoice <= Cardinality(VoicesOn(xml[PartOf(o)], o.note.staff))

\* C14: the staff coordinates are unique across the score: a note of an
\* earlier part has a strictly smaller coordinate than a note of a later
\* part, and two notes of one part share a coordinate only on one staff.
StaffCoordinatesUnique ==
  pc = "done" =>
    \A x, y \in ReturnedNotes :
      /\ PartOf(x) < PartOf(y) => x.staff < y.staff
      /\ (PartOf(x) = PartOf(y) /\ x.staff = y.staff) => x.note.staff = y.note.staff

----------------------------------------------------------------------------
(* Numbering of the occurrences (lines 694-704).                           *)

\* C15: in each of the two lists the occurrence numbers are 1, 2, 3, ... in
\* the order of discovery: the i-th element carries the number i, whatever
\* the other list holds.
OccurrenceNumbersSequential ==
  /\ \A i \in 1..Len(exactPatternOccurrences) :
       exactPatternOccurrences[i].occurenceNumber = i
  /\ \A i \in 1..Len(approximatePatternOccurrences) :
       approximatePatternOccurrences[i].occurenceNumber = i
  /\ \A r \in returned :
       /\ \A i \in 1..Len(r.exactPatternOccurrences) :
            r.exactPatternOccurrences[i].occurenceNumber = i
       /\ \A i \in 1..Len(r.approximatePatternOccurrences) :
            r.approximatePatternOccurrences[i].occurenceNumber = i

\* A returned object with occurrences in both lists: each list starts at 1.
BothListsNumbered ==
  /\ pc = "done"
  /\ \E r \in returned :
       /\ Len(r.exactPatternOccurrences) >= 1
       /\ Len(r.approximatePatternOccurrences) >= 1

----------------------------------------------------------------------------
(* The lanes of a part (lines 626-649).                                    *)

\* C16: in a part that declares more than one staff every note that is not
\* a rest lies in exactly one lane that is scanned, the lane of its own
\* staff and voice (an absent staff or voice taken as 1).
EveryNoteInItsLane ==
  (pc = "scan" /\ partStaffCountOf(xml[partIndex + 1]) > 1) =>
    \A element \in 1..Len(xml[partIndex + 1].notes) :
      isNotRest(xml[partIndex + 1].notes[element]) =>
        /\ Cardinality({l \in 1..Len(forEachLane(staveNotes)) :
                          \E i \in 1..Len(forEachLane(staveNotes)[l]) :
                            forEachLane(staveNotes)[l][i] = element}) = 1
        /\ \A l \in 1..Len(forEachLane(staveNotes)) :
             \A i, j \in 1..Len(forEachLane(staveNotes)[l]) :
               (forEachLane(staveNotes)[l][i] = element) =>
                 /\ OrDefault(getUniqueInteger(
                      xml[partIndex + 1].notes[forEachLane(staveNotes)[l][j]].staff), 1)
                    = OrDefault(getUniqueInteger(
                        xml[partIndex + 1].notes[element].staff), 1)
                 /\ OrDefault(getUniqueInteger(
                      xml[partIndex + 1].notes[forEachLane(staveNotes)[l][j]].voice), 1)
                    = OrDefault(getUniqueInteger(
                        xml[partIndex + 1].notes[element].voice), 1)

----------------------------------------------------------------------------
(* Rests and the alignments of a lane (lines 653-662).                     *)

\* The elements of a part that are not rests, in document order.
NonRests(part) ==
  SelectSeq([i \in 1..Len(part.notes) |-> i],
            LAMBDA i : isNotRest(part.notes[i]))

\* The pitch of a note element, as step and alter; the element has a <pitch>.
ElementPitch(noteElement) ==
  <<getUniqueString(noteElement.pitch[1].step),
    getUniqueInteger(noteElement.pitch[1].alter)>>

\* The k notes that follow position i of the non-rest notes of the part lie
\* in one staff and voice and have the pitches of the pattern, in order.
PatternStartsAt(part, i) ==
  /\ i + Len(pattern) <= Len(NonRests(part))
  /\ \A j \in 1..Len(pattern) :
       /\ Len(part.notes[NonRests(part)[i + j]].pitch) = 1
       /\ ElementPitch(part.notes[NonRests(part)[i + j]]) = PatternPitches[j]
       /\ part.notes[NonRests(part)[i + j]].staff = part.notes[NonRests(part)[i + 1]].staff
       /\ part.notes[NonRests(part)[i + j]].voice = part.notes[NonRests(part)[i + 1]].voice

\* C17: rests never take the place of a pattern entry: when, in a part of one
\* staff, the k notes from some position of the sequence of its non-rest
\* notes lie in one voice and equal the pattern in order, findPattern returns
\* an exact occurrence with these pitches, whatever rests lie between them.
RestsDoNotBreakOccurrence ==
  (pc = "done" /\ Len(pattern) >= 1) =>
    \A p \in 1..Len(xml) :
      (/\ partStaffCountOf(xml[p]) = 1
       /\ \E i \in 0..Len(NonRests(xml[p])) : PatternStartsAt(xml[p], i)) =>
        \E r \in returned :
          \E o \in 1..Len(r.exactPatternOccurrences) :
            PitchesOf(r.exactPatternOccurrences[o]) = PatternPitches

----------------------------------------------------------------------------
(* Position in the measure (lines 553-563, 676-678): one part of one or    *)
(* two measures whose entries are notes and rests of two voices, with      *)
(* notes that have no <voice> element.                                     *)

MaxMeasureNotes == 3

\* The entries of a measure: the note A in voice 1 or 2 or without <voice>,
\* and rests of voice 1 or 2; no <staff> element.
MeasureEntries(measure) ==
  {NoteElement(<<Pitch(<<"A">>, <<>>)>>, <<>>, vo, measure) :
     vo \in {<<>>, <<1>>, <<2>>}}
  \cup {RestElement(<<>>, <<v>>, measure) : v \in 1..2}

\* The first `split` entries lie in measure 1, the others in measure 2.
MeasureDocs ==
  {<<[staves |-> <<>>,
      notes |-> [i \in 1..Len(n) |->
                   IF i <= split THEN n[i] ELSE [n[i] EXCEPT !.measure = 2]]]>> :
     <<n, split>> \in {<<n, split>> \in SeqsUpTo(MeasureEntries(1), MaxMeasureNotes)
                                        \X (0..MaxMeasureNotes) :
                         split <= Len(n) /\ Len(n) >= 1}}

\* A first call of findPattern, on a document of measures and the pattern [A].
CallMeasure ==
  /\ pc = "idle"
  /\ \E document \in MeasureDocs : Call(document, <<PatternNote({"A"}, {})>>)

NextMeasure ==
  \/ CallMeasure
  \/ BeginPart
  \/ Attempt
  \/ Return

SpecMeasure == Init /\ [][NextMeasure]_vars

\* The 0-based rank of an element among the entries, notes and rests, of its
\* measure that have its voice, an absent voice taken as 1.
RankInVoice(part, element) ==
  Cardinality({j \in 1..(element - 1) :
                 /\ part.notes[j].measure = part.notes[element].measure
                 /\ OrDefault(getUniqueInteger(part.notes[j].voice), 1)
                    = OrDefault(getUniqueInteger(part.notes[element].voice), 1)})

\* The elements of the part an emitted note can stand for: notes of its
\* measure with its pitch, staff and voice.
SourcesOf(part, o) ==
  {e \in 1..Len(part.notes) :
     /\ isNotRest(part.notes[e])
     /\ Len(part.notes[e].pitch) = 1
     /\ part.notes[e].measure = o.measure
     /\ ElementPitch(part.notes[e]) = <<o.note.step, o.note.alter>>
     /\ OrDefault(getUniqueInteger(part.notes[e].staff), 1) = o.note.staff
     /\ OrDefault(getUniqueInteger(part.notes[e].voice), 1) = o.note.voice}

\* C18: the position of every emitted note, which is emitted 1-based as
\* measureNoteNumber (line 677), is the 0-based rank of the note among the
\* notes and rests of its measure that have its voice: same-voice rests are
\* counted, entries of other voices are not.
PositionIsRankInVoice ==
  pc = "done" =>
    \A o \in ReturnedNotes :
      \E e \in SourcesOf(xml[PartOf(o)], o) :
        o.measureNoteNumber - 1 = RankInVoice(xml[PartOf(o)], e)

\* C19: coordinate resolution never fails: every emitted note carries the
\* number of its measure and a position that was found, never the 'not
\* found' value -1 of indexOf, also when the note has no <voice> or <staff>.
PositionAlwaysFound ==
  pc = "done" =>
    \A o \in ReturnedNotes :
      /\ \E e \in SourcesOf(xml[PartOf(o)], o) : TRUE
      /\ o.measureNoteNumber - 1 >= 0

----------------------------------------------------------------------------
(* noteIsEqual on its own (lines 535-536), on the notes getNote makes of   *)
(* two note elements and on a note and a pattern entry (line 670).         *)

\* Notes A or B with no <alter>, <alter>0</alter> or <alter>1</alter>, with
\* or without an octave, on staff 1 or 2 in voice 1 or 2.
CompareElements ==
  {NoteElement(<<[Pitch(<<st>>, al) EXCEPT !.octave = oc]>>, <<s>>, <<v>>, 1) :
     st \in {"A", "B"}, al \in {<<>>, <<0>>, <<1>>}, oc \in {<<>>, <<4>>, <<5>>},
     s \in 1..2, v \in 1..2}

ComparePatternNotes ==
  {PatternNote({st}, al) : st \in {"A", "B"}, al \in {{}, {0}, {1}}}

\* getNote on two note elements of a fresh process, and noteIsEqual on the
\* two notes.
CompareNotes ==
  /\ pc = "idle"
  /\ probe = {}
  /\ \E first \in CompareElements, second \in CompareElements :
       \E got1 \in {getNote(first, staffVoicesNumbers)} :
         \E got2 \in {getNote(second, got1.table)} :
           /\ staffVoicesNumbers' = got2.table
           /\ probe' = {[first  |-> first,
                         second |-> second,
                         step1  |-> Range(first.pitch[1].step),
                         alter1 |-> Range(first.pitch[1].alter),
                         step2  |-> Range(second.pitch[1].step),
                         alter2 |-> Range(second.pitch[1].alter),
                         equal  |-> noteIsEqual(got1.note, got2.note)]}
  /\ UNCHANGED <<pc, xml, pattern, exactPatternOccurrences,
                 exactPatternOccurrenceCount, approximatePatternOccurrences,
                 approximatePatternOccurrenceCount, staffCount, partIndex,
                 staveNotes, laneIndex, noteIndex, result, returned, earlier,
                 colorVars>>

\* getNote on a note element of a fresh process, and noteIsEqual on the note
\* and a pattern entry.
CompareWithPattern ==
  /\ pc = "idle"
  /\ probe = {}
  /\ \E first \in CompareElements, second \in ComparePatternNotes :
       \E got1 \in {getNote(first, staffVoicesNumbers)} :
         /\ staffVoicesNumbers' = got1.table
         /\ probe' = {[first  |-> first,
                       second |-> first,
                       step1  |-> Range(first.pitch[1].step),
                       alter1 |-> Range(first.pitch[1].alter),
                       step2  |-> second.step,
                       alter2 |-> second.alter,
                       equal  |-> noteIsEqual(got1.note, {second})]}
  /\ UNCHANGED <<pc, xml, pattern, exactPatternOccurrences,
                 exactPatternOccurrenceCount, approximatePatternOccurrences,
                 approximatePatternOccurrenceCount, staffCount, partIndex,
                 staveNotes, laneIndex, noteIndex, result, returned, earlier,
                 colorVars>>

NextCompare ==
  \/ CompareNotes
  \/ CompareWithPattern

SpecCompare == Init /\ [][NextCompare]_vars

\* C20: noteIsEqual is true exactly when the two steps are equal and the two
\* alters are equal, an absent alter being equal to an absent alter only and
\* not to the alter 0; octave, staff and voice play no part.
NoteIsEqualIsStepAndAlter ==
  \A c \in probe :
    c.equal <=> (c.step1 = c.step2 /\ c.alter1 = c.alter2)

\* Two notes that noteIsEqual finds equal although their octaves, staves and
\* voices differ.
EqualAcrossOctaveStaffVoice ==
  \E c \in probe :
    /\ c.equal
    /\ c.first.pitch[1].octave # c.second.pitch[1].octave
    /\ c.first.staff # c.second.staff
    /\ c.first.voice # c.second.voice

----------------------------------------------------------------------------
(* The notes of one occurrence (lines 664-680).                            *)

\* Every note of the list after the first has the staff and the voice of
\* the note before it, or its step and alter.
Continuous(notes) ==
  \A j \in 2..Len(notes) :
    \/ /\ notes[j].note.staff = notes[j - 1].note.staff
       /\ notes[j].note.voice = notes[j - 1].note.voice
    \/ /\ notes[j].note.step = notes[j - 1].note.step
       /\ notes[j].note.alter = notes[j - 1].note.alter

\* C21: in every occurrence findPattern builds, classified or not, each note
\* after the first has the staff and voice of the note accumulated just
\* before it or is pitch-equal to that note.
OccurrenceNotesContinuous ==
  /\ \A r \in result : Continuous(r.notes)
  /\ \A i \in 1..Len(exactPatternOccurrences) :
       Continuous(exactPatternOccurrences[i].notes)
  /\ \A i \in 1..Len(approximatePatternOccurrences) :
       Continuous(approximatePatternOccurrences[i].notes)

\* An occurrence that changes the voice on a repeated pitch, and one that
\* goes on in the voice with another pitch.
OccurrenceChangesVoice ==
  \E r \in result :
    /\ Len(r.notes) >= 3
    /\ \E j \in 2..Len(r.notes) :
         /\ r.notes[j].note.voice # r.notes[j - 1].note.voice
         /\ r.notes[j].note.step = r.notes[j - 1].note.step
    /\ \E j \in 2..Len(r.notes) :
         /\ r.notes[j].note.voice = r.notes[j - 1].note.voice
         /\ r.notes[j].note.step # r.notes[j - 1].note.step

----------------------------------------------------------------------------
(* matchingCount (lines 578-588, 683-687).                                 *)

\* The pitches, step and alter, of a list of notes or pattern entries.
PitchSet(notes) == {<<notes[i].step, notes[i].alter>> : i \in 1..Len(notes)}

PitchCount(notes, pitch) ==
  Cardinality({i \in 1..Len(notes) : <<notes[i].step, notes[i].alter>> = pitch})

RECURSIVE SumOver(_, _, _)
SumOver(pitches, notes, pat) ==
  IF pitches = {} THEN 0
  ELSE LET pitch == CHOOSE x \in pitches : TRUE
       IN (IF PitchCount(notes, pitch) < PitchCount(pat, pitch)
           THEN PitchCount(notes, pitch) ELSE PitchCount(pat, pitch))
          + SumOver(pitches \ {pitch}, notes, pat)

\* The largest number of notes that can be paired with distinct pattern
\* entries of equal pitch: pitch by pitch, the smaller of the two counts.
OneToOneCount(notes, pat) == SumOver(PitchSet(pat), notes, pat)

\* C22: matchingCount is a one-to-one coverage count: for every accumulated
\* list it is the number of accumulated notes that can be paired with
\* distinct pattern entries of equal pitch, and it never exceeds the number
\* of accumulated notes.
MatchingCountIsOneToOne ==
  \A r \in result :
    /\ r.matchingCount = OneToOneCount(occurrenceNotes(r.notes), pattern)
    /\ r.matchingCount <= Len(r.notes)

----------------------------------------------------------------------------
(* The ordinal of a voice over one run (lines 509-526, 664-680).           *)

\* C23: the staffVoice of a voice is stable over a run of findPattern that
\* starts with the empty table: two returned notes of one part that have the
\* same staff and the same voice carry the same staffVoice, in whatever
\* order the voices of the staff are met.
OrdinalStableInRun ==
  (pc = "done" /\ earlier = <<>>) =>
    \A x, y \in ReturnedNotes :
      (/\ PartOf(x) = PartOf(y)
       /\ x.note.staff = y.note.staff
       /\ x.note.voice = y.note.voice) =>
        x.note.staffVoice = y.note.staffVoice

----------------------------------------------------------------------------
(* Colouring (lines 760-812).  The rendered score osmd.graphic.measureList *)
(* is a sequence of measures, a measure a sequence of staves, a staff      *)
(* [staffEntries], a staff entry [graphicalVoiceEntries] and a graphical   *)
(* voice entry [noteheadColor], the colour of notes[0].sourceNote.         *)

MaxColorNotes == 2

\* Lines 800-810: the arguments of the calls of colorOsmdNote, in the order
\* the two nested forEach make them.
RECURSIVE colorCalls(_, _)
colorCalls(patternOccurrences, colorsList) ==
  IF patternOccurrences = <<>> THEN <<>>
  ELSE LET patternOccurrence == Head(patternOccurrences)
       IN [i \in 1..Len(patternOccurrence.notes) |->
             [measure    |-> patternOccurrence.notes[i].measure,
              staff      |-> patternOccurrence.notes[i].staff,
              noteNumber |-> patternOccurrence.notes[i].measureNoteNumber,
              staffVoice |-> patternOccurrence.notes[i].note.staffVoice,
              color      |-> colorsList[((patternOccurrence.occurenceNumber - 1)
                                           % Len(colorsList)) + 1]]]
          \o colorCalls(Tail(patternOccurrences), colorsList)

\* Lines 766-769: the lookup of graphicalVoiceEntries reads a property of
\* undefined, a TypeError, when the measure, the staff or the note number is
\* outside the rendered score.
lookupThrows(score, call) ==
  ~ /\ call.measure \in 1..Len(score)
    /\ call.staff \in 1..Len(score[call.measure])
    /\ call.noteNumber \in 1..Len(score[call.measure][call.staff].staffEntries)

\* Lines 773-776: the index is lowered while it has no entry and is above 0.
RECURSIVE lowerToEntry(_, _)
lowerToEntry(graphicalVoiceEntries, staffVoiceNum) ==
  IF staffVoiceNum + 1 \in 1..Len(graphicalVoiceEntries) THEN staffVoiceNum
  ELSE IF staffVoiceNum <= 0 THEN staffVoiceNum
  ELSE lowerToEntry(graphicalVoiceEntries, staffVoiceNum - 1)

\* Lines 793-799: colorOsmdPatternOccurrences is called.
ColorStart(score, patternOccurrences, colorsList) ==
  /\ colorPc = "idle"
  /\ osmd' = score
  /\ toColor' = colorCalls(patternOccurrences, colorsList)
  /\ colorPc' = IF toColor' = <<>> THEN "done" ELSE "coloring"
  /\ UNCHANGED <<pc, xml, pattern, staffVoicesNumbers, exactPatternOccurrences,
                 exactPatternOccurrenceCount, approximatePatternOccurrences,
                 approximatePatternOccurrenceCount, staffCount, partIndex,
                 staveNotes, laneIndex, noteIndex, result, returned, earlier,
                 probe, consoleErrors>>

\* Lines 760-784: one call of colorOsmdNote.  A TypeError of the lookup is
\* raised before the try block is entered: it leaves colorOsmdNote and the
\* two forEach.  A TypeError inside the try block is logged.
ColorNote ==
  /\ colorPc = "coloring"
  /\ \E call \in {Head(toColor)} :
       IF lookupThrows(osmd, call)
       THEN /\ colorPc' = "threw"
            /\ UNCHANGED <<osmd, toColor, consoleErrors>>
       ELSE \E ref \in {osmd[call.measure][call.staff]
                          .staffEntries[call.noteNumber].graphicalVoiceEntries} :
              \E staffVoiceNum \in {lowerToEntry(ref, call.staffVoice - 1)} :
                /\ IF staffVoiceNum + 1 \in 1..Len(ref)
                   THEN /\ osmd' = [osmd EXCEPT
                               ![call.measure][call.staff]
                                 .staffEntries[call.noteNumber]
                                 .graphicalVoiceEntries[staffVoiceNum + 1]
                                 .noteheadColor = call.color]
                        /\ UNCHANGED consoleErrors
                   ELSE /\ consoleErrors' = consoleErrors + 1
                        /\ UNCHANGED osmd
                /\ toColor' = Tail(toColor)
                /\ colorPc' = IF Tail(toColor) = <<>> THEN "done" ELSE "coloring"
  /\ UNCHANGED <<pc, xml, pattern, staffVoicesNumbers, exactPatternOccurrences,
                 exactPatternOccurrenceCount, approximatePatternOccurrences,
                 approximatePatternOccurrenceCount, staffCount, partIndex,
                 staveNotes, laneIndex, noteIndex, result, returned, earlier,
                 probe>>

\* Rendered scores of one measure with one staff and one staff entry that has
\* no, one or two graphical voice entries.
RenderedScores ==
  {<<<<[staffEntries |->
          <<[graphicalVoiceEntries |-> [v \in 1..n |-> [noteheadColor |-> "#000"]]]>>]>>>> :
     n \in 0..2}

\* Note occurrences in measure 1 or 2, on staff 1 or 2, with note number 1 or
\* 2 and staffVoice 1 or 2.
ColorNoteOccurrences ==
  {[staff |-> s, measure |-> m, measureNoteNumber |-> n, note |-> [staffVoice |-> sv]] :
     s \in 1..2, m \in 1..2, n \in 1..2, sv \in 1..2}

\* One occurrence, numbered 1, 2 or 3, of up to MaxColorNotes notes.
ColorOccurrences ==
  {<<[notes |-> notes, occurenceNumber |-> number]>> :
     notes \in SeqsUpTo(ColorNoteOccurrences, MaxColorNotes) \ {<<>>},
     number \in 1..3}

CallColor ==
  /\ colorPc = "idle"
  /\ \E score \in RenderedScores, patternOccurrences \in ColorOccurrences :
       ColorStart(score, patternOccurrences, <<"#F44336", "#E91E63">>)

NextColor ==
  \/ CallColor
  \/ ColorNote

SpecColor == Init /\ [][NextColor]_vars

\* C24: a failure of the lookup in the rendered score caused by a measure,
\* staff, note number or voice that the score does not have is caught and
\* logged inside colorOsmdNote: it never leaves colorOsmdNote, and
\* colorOsmdPatternOccurrences goes on with the remaining notes.
ColoringNeverThrows == colorPc # "threw"

----------------------------------------------------------------------------
(* Patterns of pairwise distinct pitches: one part without <staves> whose  *)
(* notes A, B-flat and C lie in voice 1, with a B-flat of voice 2 and      *)
(* rests of voice 1.                                                       *)

MaxDistinctNotes == 4

DistinctElements ==
  {NoteElement(<<p>>, <<1>>, <<1>>, 1) : p \in {Anat, Bflat, Cnat}}
  \cup {NoteElement(<<Bflat>>, <<1>>, <<2>>, 1), RestElement(<<1>>, <<1>>, 1)}

DistinctDocs ==
  {<<[staves |-> <<>>, notes |-> n]>> :
     n \in SeqsUpTo(DistinctElements, MaxDistinctNotes)}

\* The patterns over A, B-flat and C without two entries of one pitch.
DistinctPatterns ==
  {pat \in SeqsUpTo({PatternNote({"A"}, {}), PatternNote({"B"}, {-1}),
                     PatternNote({"C"}, {})}, MaxPatLen) :
     \A i, j \in 1..Len(pat) : i # j => pat[i] # pat[j]}

\* A first call of findPattern with a pattern of pairwise distinct pitches.
CallDistinct ==
  /\ pc = "idle"
  /\ \E document \in DistinctDocs, pat \in DistinctPatterns : Call(document, pat)

NextDistinct ==
  \/ CallDistinct
  \/ BeginPart
  \/ Attempt
  \/ Return

SpecDistinct == Init /\ [][NextDistinct]_vars

\* C25: for a pattern of k >= 1 pairwise pitch-distinct entries, every
\* occurrence findPattern classifies as exact has exactly k notes, the j-th
\* of them pitch-equal to pattern[j]: a note accepted because it repeats the
\* pitch before it never makes an occurrence exact.
DistinctPatternExactIsThePattern ==
  (/\ Len(pattern) >= 1
   /\ \A i, j \in 1..Len(pattern) :
        i # j => PatternPitches[i] # PatternPitches[j]) =>
    /\ \A i \in 1..Len(exactPatternOccurrences) :
         PitchesOf(exactPatternOccurrences[i]) = PatternPitches
    /\ \A r \in returned :
         \A i \in 1..Len(r.exactPatternOccurrences) :
           PitchesOf(r.exactPatternOccurrences[i]) = PatternPitches

\* A run on a pattern of three distinct pitches and a part of four entries
\* that returned an exact occurrence.
DistinctThreeExact ==
  /\ pc = "done"
  /\ Len(pattern) = 3
  /\ Len(xml[1].notes) = 4
  /\ \E r \in returned : Len(r.exactPatternOccurrences) >= 1

----------------------------------------------------------------------------
(* Parts of two staves: one part with <staves>2</staves> whose notes A and *)
(* B-flat lie on staff 1 in voice 1 or 2, on staff 2 in voice 1, or have   *)
(* no <staff> element.                                                     *)

MaxStaveNotes == 3

StaveElements ==
  {NoteElement(<<p>>, sv[1], sv[2], 1) :
     p \in {Anat, Bflat},
     sv \in {<<<<1>>, <<1>>>>, <<<<1>>, <<2>>>>, <<<<2>>, <<1>>>>, <<<<>>, <<1>>>>}}

StaveDocs ==
  {<<[staves |-> <<2>>, notes |-> n]>> : n \in SeqsUpTo(StaveElements, MaxStaveNotes)}

\* The patterns of one or two entries A or B-flat.
StavePatterns ==
  SeqsUpTo({PatternNote({"A"}, {}), PatternNote({"B"}, {-1})}, 2) \ {<<>>}

\* A first call of findPattern on a part of two staves.
CallStaves ==
  /\ pc = "idle"
  /\ \E document \in StaveDocs, pat \in StavePatterns : Call(document, pat)

NextStaves ==
  \/ CallStaves
  \/ BeginPart
  \/ Attempt
  \/ Return

SpecStaves == Init /\ [][NextStaves]_vars

\* All notes of the list lie on one staff in one voice.
OneStaffVoice(notes) ==
  \A i, j \in 1..Len(notes) :
    /\ notes[i].note.staff = notes[j].note.staff
    /\ notes[i].note.voice = notes[j].note.voice

\* The list belongs to a part that declares more than one staff.
InPartOfStaves(notes) ==
  \E i \in 1..Len(notes) : partStaffCountOf(xml[PartOf(notes[i])]) > 1

\* C26: in a part that declares more than one staff all notes of an
\* occurrence that findPattern builds or returns have one and the same staff
\* and voice.
OccurrenceInOneStaffVoice ==
  /\ \A r \in result : InPartOfStaves(r.notes) => OneStaffVoice(r.notes)
  /\ \A i \in 1..Len(exactPatternOccurrences) :
       InPartOfStaves(exactPatternOccurrences[i].notes) =>
         OneStaffVoice(exactPatternOccurrences[i].notes)
  /\ \A i \in 1..Len(approximatePatternOccurrences) :
       InPartOfStaves(approximatePatternOccurrences[i].notes) =>
         OneStaffVoice(approximatePatternOccurrences[i].notes)
  /\ \A r \in returned :
       /\ \A i \in 1..Len(r.exactPatternOccurrences) :
            InPartOfStaves(r.exactPatternOccurrences[i].notes) =>
              OneStaffVoice(r.exactPatternOccurrences[i].notes)
       /\ \A i \in 1..Len(r.approximatePatternOccurrences) :
            InPartOfStaves(r.approximatePatternOccurrences[i].notes) =>
              OneStaffVoice(r.approximatePatternOccurrences[i].notes)

\* A returned occurrence of two notes on staff 2 of a part of two staves
\* whose three notes begin on staff 1.
TwoNotesOnSecondStaff ==
  /\ pc = "done"
  /\ partStaffCountOf(xml[1]) > 1
  /\ Len(xml[1].notes) = 3
  /\ xml[1].notes[1].staff = <<1>>
  /\ \E r \in returned :
       \E i \in 1..Len(r.exactPatternOccurrences) :
         /\ Len(r.exactPatternOccurrences[i].notes) = 2
         /\ r.exactPatternOccurrences[i].notes[1].note.staff = 2

====
